---- MODULE Spec2Model ----
(***************************************************************************)
(* Wikipedia geoprovenance analysis (src/wikipedia_geoprovenance.py).      *)
(*                                                                         *)
(* Strings are sequences of one-character strings, so that the regular     *)
(* expressions, str.strip, urlparse and the public-suffix split are        *)
(* computed character by character, as the Python code computes them.      *)
(***************************************************************************)
EXTENDS Integers, Sequences, FiniteSets, TLC

(***************************************************************************)
(* Bounds of the model.                                                    *)
(***************************************************************************)
MaxTokens == 3

MaxUrls == 3

NumArticles == 2

(***************************************************************************)
(* Characters and character classes.                                       *)
(***************************************************************************)
NL == "\n"

\* str.lower() on the ASCII letters
LowerMap ==
    [c \in {"A","B","C","D","E","F","G","H","I","J","K","L","M",
            "N","O","P","Q","R","S","T","U","V","W","X","Y","Z"} |->
       CASE c = "A" -> "a" [] c = "B" -> "b" [] c = "C" -> "c" [] c = "D" -> "d"
         [] c = "E" -> "e" [] c = "F" -> "f" [] c = "G" -> "g" [] c = "H" -> "h"
         [] c = "I" -> "i" [] c = "J" -> "j" [] c = "K" -> "k" [] c = "L" -> "l"
         [] c = "M" -> "m" [] c = "N" -> "n" [] c = "O" -> "o" [] c = "P" -> "p"
         [] c = "Q" -> "q" [] c = "R" -> "r" [] c = "S" -> "s" [] c = "T" -> "t"
         [] c = "U" -> "u" [] c = "V" -> "v" [] c = "W" -> "w" [] c = "X" -> "x"
         [] c = "Y" -> "y" [] c = "Z" -> "z"]

LowerLetters ==
    {"a","b","c","d","e","f","g","h","i","j","k","l","m",
     "n","o","p","q","r","s","t","u","v","w","x","y","z"}

Digits == {"0","1","2","3","4","5","6","7","8","9"}

Lower(c) == IF c \in DOMAIN LowerMap THEN LowerMap[c] ELSE c

RECURSIVE LowerStr(_)
\* str.lower()
LowerStr(s) == IF s = <<>> THEN <<>> ELSE <<Lower(Head(s))>> \o LowerStr(Tail(s))

IsAlpha(c) == c \in LowerLetters \/ c \in DOMAIN LowerMap

\* urllib.parse.scheme_chars: letters, digits and "+-."
IsSchemeChar(c) == IsAlpha(c) \/ c \in Digits \/ c \in {"+", "-", "."}

\* the regex class \s, which is also what str.strip() removes
IsSpace(c) == c \in {" ", NL, "\t", "\r"}

\* the complement of the class [^|}\n] of the url= pattern
StopsParam(c) == c \in {"|", "}", NL}

\* the complement of the class [^\s|}] of the direct-URL pattern
StopsDirect(c) == IsSpace(c) \/ c \in {"|", "}"}

Max(S) == CHOOSE x \in S : \A y \in S : y <= x

Min(S) == CHOOSE x \in S : \A y \in S : x <= y

\* s[p..] starts with the literal lit, compared case-insensitively (re.IGNORECASE)
LitAt(s, p, lit) ==
    /\ p + Len(lit) - 1 <= Len(s)
    /\ \A q \in 1..Len(lit) : Lower(s[p + q - 1]) = lit[q]

RECURSIVE SkipSpace(_, _)
\* \s* taken greedily from p: the first position that is not whitespace
SkipSpace(s, p) ==
    IF p <= Len(s) /\ IsSpace(s[p]) THEN SkipSpace(s, p + 1) ELSE p

RECURSIVE RunParam(_, _)
\* [^|}\n]* taken greedily from p
RunParam(s, p) ==
    IF p <= Len(s) /\ ~StopsParam(s[p]) THEN RunParam(s, p + 1) ELSE p

RECURSIVE RunDirect(_, _)
\* [^\s|}]* taken greedily from p
RunDirect(s, p) ==
    IF p <= Len(s) /\ ~StopsDirect(s[p]) THEN RunDirect(s, p + 1) ELSE p

NoMatch == [ok |-> FALSE, from |-> 0, to |-> 0]

(***************************************************************************)
(* r'url\s*=\s*([^|}\n]+)' tried at position p.  The second \s* is greedy   *)
(* and gives characters back until the group can take at least one          *)
(* character: the group starts at the last position of a..k that holds a    *)
(* character of [^|}\n].  from/to delimit group 1; the match ends at to.    *)
(***************************************************************************)
MatchUrlParam(s, p) ==
    LET q == SkipSpace(s, p + 3)
        a == q + 1
        k == SkipSpace(s, a)
        starts == {g \in a..k : g <= Len(s) /\ ~StopsParam(s[g])}
    IN  IF LitAt(s, p, <<"u", "r", "l">>) /\ q <= Len(s) /\ s[q] = "=" /\ starts # {}
        THEN [ok |-> TRUE, from |-> Max(starts), to |-> RunParam(s, Max(starts))]
        ELSE NoMatch

(***************************************************************************)
(* r'https?://[^\s|}]+' tried at position p; from/to delimit group 0.       *)
(***************************************************************************)
MatchDirect(s, p) ==
    LET h == p + 4
        c == IF h <= Len(s) /\ Lower(s[h]) = "s" THEN h + 1 ELSE h
        e == RunDirect(s, c + 3)
    IN  IF LitAt(s, p, <<"h", "t", "t", "p">>) /\ LitAt(s, c, <<":", "/", "/">>) /\ e > c + 3
        THEN [ok |-> TRUE, from |-> p, to |-> e]
        ELSE NoMatch

\* url_patterns[pattern], 1 = url= parameter, 2 = direct URL
MatchAt(pat, s, p) ==
    IF pat = 1 THEN MatchUrlParam(s, p) ELSE MatchDirect(s, p)

RECURSIVE finditer(_, _, _)
\* re.finditer: the non-overlapping matches from left to right, each as the
\* text of the group line 79 reads
finditer(pat, s, p) ==
    IF p > Len(s) THEN <<>>
    ELSE LET m == MatchAt(pat, s, p)
         IN  IF m.ok
             THEN <<SubSeq(s, m.from, m.to - 1)>> \o finditer(pat, s, m.to)
             ELSE finditer(pat, s, p + 1)

RECURSIVE lstrip(_)
lstrip(s) == IF s # <<>> /\ IsSpace(s[1]) THEN lstrip(Tail(s)) ELSE s

RECURSIVE rstrip(_)
rstrip(s) ==
    IF s # <<>> /\ IsSpace(s[Len(s)]) THEN rstrip(SubSeq(s, 1, Len(s) - 1)) ELSE s

\* str.strip()
strip(s) == rstrip(lstrip(s))

RECURSIVE rstripChars(_, _)
\* str.rstrip(chars)
rstripChars(s, chars) ==
    IF s # <<>> /\ s[Len(s)] \in chars
    THEN rstripChars(SubSeq(s, 1, Len(s) - 1), chars)
    ELSE s

\* line 80: url.strip().rstrip('|}')
CleanUrl(s) == rstripChars(strip(s), {"|", "}"})

Contains(s, c) == \E q \in 1..Len(s) : s[q] = c

\* sub in s
IsSubstring(sub, s) ==
    \E p \in 1..(Len(s) - Len(sub) + 1) :
        \A q \in 1..Len(sub) : s[p + q - 1] = sub[q]

(***************************************************************************)
(* urllib.parse.urlparse, as far as scheme and netloc go.  raises is the   *)
(* ValueError("Invalid IPv6 URL") of an unbalanced bracket in the netloc.  *)
(***************************************************************************)
urlparse(url0) ==
    LET url == SelectSeq(lstrip(url0), LAMBDA c : c \notin {"\t", "\r", NL})
        colons == {j \in 1..Len(url) : url[j] = ":"}
        colon == IF colons = {} THEN 0 ELSE Min(colons)
        hasScheme == /\ colon > 1
                     /\ IsAlpha(url[1])
                     /\ \A j \in 1..(colon - 1) : IsSchemeChar(url[j])
        rest == IF hasScheme THEN SubSeq(url, colon + 1, Len(url)) ELSE url
        hasNetloc == Len(rest) >= 2 /\ rest[1] = "/" /\ rest[2] = "/"
        delims == {j \in 3..Len(rest) : rest[j] \in {"/", "?", "#"}}
        delim == IF delims = {} THEN Len(rest) + 1 ELSE Min(delims)
        netloc == IF hasNetloc THEN SubSeq(rest, 3, delim - 1) ELSE <<>>
    IN  [raises |-> Contains(netloc, "[") # Contains(netloc, "]"),
         scheme |-> IF hasScheme THEN LowerStr(SubSeq(url, 1, colon - 1)) ELSE <<>>,
         netloc |-> netloc]

WikipediaOrg == <<"w","i","k","i","p","e","d","i","a",".","o","r","g">>

\* the check of line 96 without .lower(): the host name compared as written
is_valid_url_as_written(url) ==
    LET parsed == urlparse(url)
    IN  IF parsed.raises THEN FALSE
        ELSE /\ parsed.scheme \in {<<"h","t","t","p">>, <<"h","t","t","p","s">>}
             /\ parsed.netloc # <<>>
             /\ ~IsSubstring(WikipediaOrg, parsed.netloc)

\* lines 90-98; a ValueError of urlparse is caught at line 97 and gives False
is_valid_url(url) ==
    LET parsed == urlparse(url)
    IN  IF parsed.raises THEN FALSE
        ELSE /\ parsed.scheme \in {<<"h","t","t","p">>, <<"h","t","t","p","s">>}
             /\ parsed.netloc # <<>>
             /\ ~IsSubstring(WikipediaOrg, LowerStr(parsed.netloc))


(***************************************************************************)
(* The state of the program.                                               *)
(***************************************************************************)
VARIABLES
    wikitext,        \* _parse_citations_from_wikitext: the text being parsed
    pattern,         \* ... index into url_patterns of the pattern scanned next
    citations,       \* ... the list `citations` of line 68
    result,          \* ... the value returned at line 88
    article_cites,   \* generate_geoprovenance_report: `citations` of line 159
    frame,           \* ... `source_analysis`, the DataFrame as its list of rows
    report,          \* ... the value it returns
    extract_raises,  \* the URLs on which tldextract.extract raises
    world,           \* the remote API: the response to the request for each title
    now,             \* the wall clock
    i,               \* the driver loop: index of the next article
    main_report,     \* ... the module-level variable `report` of line 269
    results,         \* ... the accumulator `results`
    visited,         \* ... the articles the loop has visited, in order
    raised,          \* ... the articles whose analysis raised into line 279
    saved,           \* the content written to geoprovenance_results.json
    pc               \* the position of the program

vars == <<wikitext, pattern, citations, result, article_cites, frame, report,
          extract_raises, world, now, i, main_report, results, visited, raised,
          saved, pc>>

(***************************************************************************)
(* Citation extraction, lines 63-88.                                       *)
(***************************************************************************)

\* lines 83-86.  seq is the identity of the dict object: its ordinal among the
\* records appended so far, which Python's dict-keyed coalescing makes visible.
MakeCitation(url, n) == [url |-> url, domain |-> urlparse(url).netloc, seq |-> n]

RECURSIVE AppendValid(_, _)
\* lines 78-86: the inner loop over the matches of one pattern
AppendValid(cs, groups) ==
    IF groups = <<>> THEN cs
    ELSE LET url == CleanUrl(Head(groups))
         IN  AppendValid(IF is_valid_url(url)
                         THEN Append(cs, MakeCitation(url, Len(cs) + 1))
                         ELSE cs,
                         Tail(groups))

\* one pass of the loop of line 76
ScanWith(cs, k, text) == AppendValid(cs, finditer(k, text, 1))

\* line 85 parses the accepted URL again, outside any try: the pass raises when
\* that parse does
ScanRaises(k, text) ==
    LET groups == finditer(k, text, 1)
    IN  \E g \in 1..Len(groups) :
            /\ is_valid_url(CleanUrl(groups[g]))
            /\ urlparse(CleanUrl(groups[g])).raises

\* a dict put that keeps the value already stored under the key
DictPutKeepFirst(d, c) ==
    IF \E k \in 1..Len(d) : d[k].url = c.url THEN d ELSE Append(d, c)

\* d[c.url] = c on a dict kept as the sequence of its values in insertion order:
\* a new key goes last, an old key keeps its place and takes the new value
DictPut(d, c) ==
    IF \E k \in 1..Len(d) : d[k].url = c.url
    THEN [k \in 1..Len(d) |-> IF d[k].url = c.url THEN c ELSE d[k]]
    ELSE Append(d, c)

RECURSIVE DictOf(_, _)
DictOf(d, cs) == IF cs = <<>> THEN d ELSE DictOf(DictPut(d, Head(cs)), Tail(cs))

\* line 88 returning the list as collected
ReturnAll(cs) == cs

\* line 88: list({c['url']: c for c in citations}.values())
Dedup(cs) == DictOf(<<>>, cs)

\* lines 63-88 as one function
parse_citations_from_wikitext(text) ==
    Dedup(ScanWith(ScanWith(<<>>, 1, text), 2, text))

\* whether lines 63-88 raise on the text
ParseRaises(text) == ScanRaises(1, text) \/ ScanRaises(2, text)

(***************************************************************************)
(* URL classification, lines 100-143.                                      *)
(***************************************************************************)
None == "None"

\* line 136
country_tlds ==
    (<<"u","k">> :> "United Kingdom") @@ (<<"u","s">> :> "United States") @@
    (<<"d","e">> :> "Germany") @@ (<<"f","r">> :> "France") @@
    (<<"j","p">> :> "Japan") @@ (<<"c","a">> :> "Canada") @@
    (<<"a","u">> :> "Australia") @@ (<<"c","h">> :> "Switzerland") @@
    (<<"c","n">> :> "China") @@ (<<"e","s">> :> "Spain") @@
    (<<"i","t">> :> "Italy") @@ (<<"n","l">> :> "Netherlands") @@
    (<<"s","e">> :> "Sweden") @@ (<<"n","o">> :> "Norway") @@
    (<<"r","u">> :> "Russia") @@ (<<"b","r">> :> "Brazil") @@
    (<<"i","n">> :> "India") @@ (<<"k","r">> :> "South Korea") @@
    (<<"p","l">> :> "Poland")

\* lines 133-143: country_tlds.get(tld.lower())
get_country_from_tld(tld) ==
    IF LowerStr(tld) \in DOMAIN country_tlds THEN country_tlds[LowerStr(tld)] ELSE None

\* s.partition(c)[0]
Before(s, c) ==
    LET at == {p \in 1..Len(s) : s[p] = c}
    IN  IF at = {} THEN s ELSE SubSeq(s, 1, Min(at) - 1)

\* s.rpartition(c)[-1]
AfterLast(s, c) ==
    LET at == {p \in 1..Len(s) : s[p] = c}
    IN  IF at = {} THEN s ELSE SubSeq(s, Max(at) + 1, Len(s))

\* tldextract's _schemeless_url: the text after "<scheme>://" or a leading "//"
SchemelessUrl(url) ==
    LET at == {p \in 1..(Len(url) - 1) : url[p] = "/" /\ url[p + 1] = "/"}
        d == IF at = {} THEN 0 ELSE Min(at)
    IN  IF d = 1 THEN SubSeq(url, 3, Len(url))
        ELSE IF d < 3 \/ url[d - 1] # ":" \/ \E j \in 1..(d - 2) : ~IsSchemeChar(url[j])
        THEN url
        ELSE SubSeq(url, d + 2, Len(url))

\* tldextract's lenient_netloc: the host without userinfo, port and root dot
LenientNetloc(url) ==
    LET hostport == AfterLast(Before(Before(Before(SchemelessUrl(url), "/"), "?"), "#"), "@")
    IN  rstripChars(strip(Before(hostport, ":")), {"."})

\* the rules of the public suffix list that the explored hosts can meet
PublicSuffixes ==
    { <<"u","k">>, <<"c","o",".","u","k">>, <<"d","e">>, <<"c","o","m">>, <<"o","r","g">> }

(***************************************************************************)
(* tldextract.extract(url), line 115: the suffix is the longest run of     *)
(* trailing labels that is a public-suffix rule (compared in lower case,   *)
(* returned as written), the domain the label before it, the subdomain the *)
(* labels before that.                                                     *)
(***************************************************************************)
TldExtract(url) ==
    LET host == LenientNetloc(url)
        rules == {p \in 1..Len(host) :
                     /\ p = 1 \/ host[p - 1] = "."
                     /\ LowerStr(SubSeq(host, p, Len(host))) \in PublicSuffixes}
        front == IF rules = {} THEN host ELSE SubSeq(host, 1, Min(rules) - 2)
        dots == {p \in 1..Len(front) : front[p] = "."}
        d == IF dots = {} THEN 0 ELSE Max(dots)
    IN  [subdomain |-> SubSeq(front, 1, d - 1),
         domain |-> SubSeq(front, d + 1, Len(front)),
         suffix |-> IF rules = {} THEN <<>> ELSE SubSeq(host, Min(rules), Len(host))]

\* line 121: the text handed to _get_country_from_tld
CountryKey(suffix) == suffix

\* lines 115-122
DomainInfo(url) ==
    LET extracted == TldExtract(url)
    IN  [url |-> url,
         domain |-> extracted.domain \o <<".">> \o extracted.suffix,
         subdomain |-> extracted.subdomain,
         tld |-> extracted.suffix,
         country_from_tld |-> get_country_from_tld(CountryKey(extracted.suffix))]

UrlA == <<"h","t","t","p",":","/","/","a",".","u","k">>

UrlA2 == <<"h","t","t","p",":","/","/","a",".","u","k","/","q">>

UrlB == <<"h","t","t","p","s",":","/","/","b",".","c","o","m","/","p">>

UrlBBC == <<"h","t","t","p",":","/","/","n","e","w","s",".","b","b","c",".","c","o",".","u","k","/">>

UrlDE == <<"H","T","T","P",":","/","/","X",".","D","E">>

UrlLocal == <<"h","t","t","p",":","/","/","l","o","c","a","l","h","o","s","t">>

UrlWiki == <<"H","T","T","P",":","/","/","x",".","W","i","k","i","p","e","d","i","a",".","O","R","G","/","w">>

UrlParam == <<"u","r","l","=">>

\* the URLs explored by the report
SampleUrls == {UrlA, UrlA2, UrlB, UrlBBC, UrlDE, UrlLocal}

\* the lists of distinct URLs of length n
UrlLists(n) ==
    {us \in [1..n -> SampleUrls] : \A j, k \in 1..n : j # k => us[j] # us[k]}

\* DomainInfo of every explored URL, computed once: the classification of a URL
\* depends on nothing but the URL
Classified == {<<u, DomainInfo(u)>> : u \in SampleUrls}

\* the entry of a table of <<key, value>> pairs
Lookup(table, key) == (CHOOSE p \in table : p[1] = key)[2]

\* lines 127-129: what the except clause adds to `results` for a URL on which
\* the decomposition raised
RowsOnError(url) == <<>>

RECURSIVE analyze_url_geoprovenance(_, _)
\* lines 111-131; failing are the URLs on which tldextract.extract raises
analyze_url_geoprovenance(urls, failing) ==
    IF urls = <<>> THEN <<>>
    ELSE (IF Head(urls) \in failing
          THEN RowsOnError(Head(urls))
          ELSE <<Lookup(Classified, Head(urls))>>)
         \o analyze_url_geoprovenance(Tail(urls), failing)

(***************************************************************************)
(* The report, lines 145-182.                                              *)
(***************************************************************************)
\* a column of the DataFrame
Column(rows, col) == [k \in 1..Len(rows) |-> rows[k][col]]

\* Series.value_counts(dropna).to_dict() of a column whose missing values are
\* at the positions na
ValueCounts(vals, na, dropna) ==
    LET kept == {k \in 1..Len(vals) : dropna => k \notin na}
    IN  [v \in {vals[k] : k \in kept} |-> Cardinality({k \in kept : vals[k] = v})]

\* the positions of the rows without a country (None)
NoCountry(rows) == {k \in 1..Len(rows) : rows[k].country_from_tld = None}

\* line 173 with value_counts(dropna=False): the rows without a country counted
\* under None
country_distribution_keepna(rows) ==
    ValueCounts(Column(rows, "country_from_tld"), NoCountry(rows), FALSE)

\* line 173
country_distribution(rows) ==
    ValueCounts(Column(rows, "country_from_tld"), NoCountry(rows), TRUE)

\* line 174; the suffix is a string in every row, possibly the empty one
tld_distribution(rows) == ValueCounts(Column(rows, "tld"), {}, TRUE)

\* line 172: Series.nunique()
unique_domains(rows) == Cardinality({rows[k].domain : k \in 1..Len(rows)})

\* line 175: Series.notna().sum()
citations_with_country_tld(rows) == Len(rows) - Cardinality(NoCountry(rows))

\* line 171 reading line 172's expression: the number of distinct domains
total_citations_from_domains(cites, rows) == unique_domains(rows)

\* line 171
total_citations(cites, rows) == Len(cites)

\* line 162
ErrorReport == [error |-> "No citations found or article inaccessible"]

\* lines 169-178
CompileReport(title, cites, rows, timestamp) ==
    [article_title |-> title,
     total_citations |-> total_citations(cites, rows),
     unique_domains |-> unique_domains(rows),
     country_distribution |-> country_distribution(rows),
     tld_distribution |-> tld_distribution(rows),
     citations_with_country_tld |-> citations_with_country_tld(rows),
     citations |-> cites,
     analysis_timestamp |-> timestamp]

IsErrorReport(r) == "error" \in DOMAIN r

IsFullReport(r) == "total_citations" \in DOMAIN r

Unbound == [unbound |-> TRUE]

RECURSIVE SumOf(_)
\* the sum of the counts of a distribution
SumOf(dist) ==
    IF DOMAIN dist = {} THEN 0
    ELSE LET v == CHOOSE x \in DOMAIN dist : TRUE
         IN  dist[v] + SumOf([w \in DOMAIN dist \ {v} |-> dist[w]])

(***************************************************************************)
(* The remote API and the fetch, lines 24-61.                              *)
(***************************************************************************)
\* lines 44-61 without line 46: the body of an error response is parsed
extract_citations_ignoring_status(resp) ==
    CASE resp.kind = "transport_error" -> <<>>
      [] resp.kind = "http_error" ->
            IF ParseRaises(resp.body) THEN <<>>
            ELSE parse_citations_from_wikitext(resp.body)
      [] resp.kind = "no_parse" -> <<>>
      [] resp.kind = "no_wikitext" -> <<>>
      [] resp.kind = "ok" ->
            IF ParseRaises(resp.body) THEN <<>>
            ELSE parse_citations_from_wikitext(resp.body)

\* lines 44-61: what extract_citations_from_article returns on a response
extract_citations_from_article(resp) ==
    CASE resp.kind = "transport_error" -> <<>>   \* session.get raises, line 59
      [] resp.kind = "http_error" -> <<>>        \* raise_for_status raises, line 59
      [] resp.kind = "no_parse" -> <<>>          \* line 49
      [] resp.kind = "no_wikitext" -> <<>>       \* KeyError at line 53, line 59
      [] resp.kind = "ok" ->
            IF ParseRaises(resp.body) THEN <<>>  \* line 59
            ELSE parse_citations_from_wikitext(resp.body)

\* the responses the remote API gives in the explored runs
Responses ==
    { [kind |-> "transport_error", body |-> <<>>],
      [kind |-> "http_error", body |-> UrlParam \o UrlA \o <<"|">>],
      [kind |-> "no_parse", body |-> <<>>],
      [kind |-> "no_wikitext", body |-> <<>>],
      [kind |-> "ok", body |-> UrlWiki],
      [kind |-> "ok", body |-> UrlParam \o UrlA \o <<"|">>],
      [kind |-> "ok", body |-> UrlB \o <<" ">> \o UrlParam \o UrlA] }

\* extract_citations_from_article on every response, computed once: the value
\* returned depends on nothing but the response
Fetched == {<<r, extract_citations_from_article(r)>> : r \in Responses}

\* line 193: the titles, in list order
sample_articles == [k \in 1..NumArticles |-> k]

Titles == {sample_articles[k] : k \in 1..NumArticles}

(***************************************************************************)
(* The wikitexts explored: up to MaxTokens pieces of markup, concatenated. *)
(***************************************************************************)
Tokens ==
    { UrlParam,
      <<"U","R","L"," ","="," ">>,
      UrlA,
      UrlB \o <<" ">>,
      UrlWiki,
      <<"h","t","t","p",":","/","/","[","c">>,
      <<"h","t","t","p",":","/","/","/","p">>,
      <<"|">>,
      <<"}">>,
      <<NL>> }

RECURSIVE TextsOf(_)
TextsOf(n) ==
    IF n = 0 THEN {<<>>}
    ELSE LET shorter == TextsOf(n - 1)
         IN  shorter \cup {t \o tok : t \in shorter, tok \in Tokens}

Wikitexts == TextsOf(MaxTokens)

EmptyMap == [x \in {} |-> Unbound]

\* geoprovenance_results.json before line 284 runs
NotWritten == [written |-> FALSE, content |-> EmptyMap]

(***************************************************************************)
(* _parse_citations_from_wikitext on every explored wikitext.              *)
(***************************************************************************)
InitExtract ==
    /\ wikitext \in Wikitexts
    /\ pattern = 1
    /\ citations = <<>>
    /\ result = <<>>
    /\ article_cites = <<>>
    /\ frame = <<>>
    /\ report = Unbound
    /\ extract_raises = {}
    /\ world = EmptyMap
    /\ now = 0
    /\ i = 1
    /\ main_report = Unbound
    /\ results = EmptyMap
    /\ visited = <<>>
    /\ raised = {}
    /\ saved = NotWritten
    /\ pc = "scan"

\* lines 76-86: the body of `for pattern in url_patterns`
ScanPattern ==
    /\ pc = "scan"
    /\ citations' = ScanWith(citations, pattern, wikitext)
    /\ pattern' = pattern + 1
    /\ pc' = IF ScanRaises(pattern, wikitext) THEN "raising"
             ELSE IF pattern = 2 THEN "dedup" ELSE "scan"
    /\ UNCHANGED <<wikitext, result, article_cites, frame, report, extract_raises,
                   world, now, i, main_report, results, visited, raised, saved>>

\* line 88
ReturnCitations ==
    /\ pc = "dedup"
    /\ result' = Dedup(citations)
    /\ pc' = "returned"
    /\ UNCHANGED <<wikitext, pattern, citations, article_cites, frame, report,
                   extract_raises, world, now, i, main_report, results, visited,
                   raised, saved>>

NextExtract == ScanPattern \/ ReturnCitations

SpecExtract == InitExtract /\ [][NextExtract]_vars

(***************************************************************************)
(* generate_geoprovenance_report from line 161 on, on every explored list  *)
(* of citations and every set of URLs whose decomposition raises.          *)
(***************************************************************************)
InitReport ==
    /\ \E n \in 0..MaxUrls : \E us \in UrlLists(n) :
          article_cites = [k \in 1..n |-> MakeCitation(us[k], k)]
    /\ extract_raises \in SUBSET {article_cites[k].url : k \in 1..Len(article_cites)}
    /\ wikitext = <<>>
    /\ pattern = 1
    /\ citations = <<>>
    /\ result = <<>>
    /\ frame = <<>>
    /\ report = Unbound
    /\ world = EmptyMap
    /\ now = 0
    /\ i = 1
    /\ main_report = Unbound
    /\ results = EmptyMap
    /\ visited = <<>>
    /\ raised = {}
    /\ saved = NotWritten
    /\ pc = "check"

\* lines 161-162
ReturnError ==
    /\ pc = "check"
    /\ article_cites = <<>>
    /\ report' = ErrorReport
    /\ pc' = "reported"
    /\ UNCHANGED <<wikitext, pattern, citations, result, article_cites, frame,
                   extract_raises, world, now, i, main_report, results, visited,
                   raised, saved>>

\* lines 165-166
Analyze ==
    /\ pc = "check"
    /\ article_cites # <<>>
    /\ frame' = analyze_url_geoprovenance(
                    [k \in 1..Len(article_cites) |-> article_cites[k].url],
                    extract_raises)
    /\ pc' = "compile"
    /\ UNCHANGED <<wikitext, pattern, citations, result, article_cites, report,
                   extract_raises, world, now, i, main_report, results, visited,
                   raised, saved>>

\* lines 169-182
Compile ==
    /\ pc = "compile"
    /\ frame # <<>>
    /\ report' = CompileReport(sample_articles[i], article_cites, frame, now)
    /\ pc' = "reported"
    /\ UNCHANGED <<wikitext, pattern, citations, result, article_cites, frame,
                   extract_raises, world, now, i, main_report, results, visited,
                   raised, saved>>

\* line 172 on a DataFrame built from no row: it has no column, and
\* source_analysis['domain'] raises KeyError
CompileRaises ==
    /\ pc = "compile"
    /\ frame = <<>>
    /\ pc' = "raising"
    /\ UNCHANGED <<wikitext, pattern, citations, result, article_cites, frame, report,
                   extract_raises, world, now, i, main_report, results, visited,
                   raised, saved>>

NextReport == ReturnError \/ Analyze \/ Compile \/ CompileRaises

SpecReport == InitReport /\ [][NextReport]_vars

(***************************************************************************)
(* The driver, lines 265-285: the whole run over sample_articles.          *)
(***************************************************************************)
Init ==
    /\ world \in [Titles -> Responses]
    /\ extract_raises \in SUBSET {UrlA, UrlB}
    /\ wikitext = <<>>
    /\ pattern = 1
    /\ citations = <<>>
    /\ result = <<>>
    /\ article_cites = <<>>
    /\ frame = <<>>
    /\ report = Unbound
    /\ now = 0
    /\ i = 1
    /\ main_report = Unbound
    /\ results = EmptyMap
    /\ visited = <<>>
    /\ raised = {}
    /\ saved = NotWritten
    /\ pc = "loop"

\* lines 267-269 and 159: the loop takes the next article and its analysis
\* fetches and parses the article
Fetch ==
    /\ pc = "loop"
    /\ i <= NumArticles
    /\ visited' = Append(visited, sample_articles[i])
    /\ now' = now + 1
    /\ article_cites' = Lookup(Fetched, world[sample_articles[i]])
    /\ pc' = "check"
    /\ UNCHANGED <<wikitext, pattern, citations, result, frame, report,
                   extract_raises, world, i, main_report, results, raised, saved>>

\* line 281 as `break`: the loop ends
IndexAfterBreak(k) == NumArticles + 1

\* line 281 (`continue`): the index of the article the loop takes after one
\* whose analysis raised
IndexAfterExcept(k) == k + 1

\* line 270 moved after the try statement: the handler's path stores the report
\* still bound to `report`, if any
ResultsAfterExceptStale(res, title, rep) ==
    IF rep = Unbound THEN res ELSE (title :> rep) @@ res

\* lines 279-281: what the handler leaves in `results`
ResultsAfterExcept(res, title, rep) == res

\* lines 269-277: the analysis returned
Store ==
    /\ pc = "reported"
    /\ main_report' = report
    /\ results' = (sample_articles[i] :> report) @@ results
    /\ i' = i + 1
    /\ pc' = "loop"
    /\ UNCHANGED <<wikitext, pattern, citations, result, article_cites, frame, report,
                   extract_raises, world, now, visited, raised, saved>>

\* lines 279-281: the analysis raised
Except ==
    /\ pc = "raising"
    /\ raised' = raised \cup {sample_articles[i]}
    /\ results' = ResultsAfterExcept(results, sample_articles[i], main_report)
    /\ i' = IndexAfterExcept(i)
    /\ pc' = "loop"
    /\ UNCHANGED <<wikitext, pattern, citations, result, article_cites, frame, report,
                   extract_raises, world, now, main_report, visited, saved>>

\* lines 284-285: the loop is over
Save ==
    /\ pc = "loop"
    /\ i > NumArticles
    /\ saved' = [written |-> TRUE, content |-> results]
    /\ pc' = "done"
    /\ UNCHANGED <<wikitext, pattern, citations, result, article_cites, frame, report,
                   extract_raises, world, now, i, main_report, results, visited, raised>>

Next ==
    \/ Fetch
    \/ ReturnError
    \/ Analyze
    \/ Compile
    \/ CompileRaises
    \/ Store
    \/ Except
    \/ Save

Spec == Init /\ [][Next]_vars

\* the interpreter runs the single thread on: no step that can be taken waits
\* for ever
FairSpec == Spec /\ WF_vars(Next)

(***************************************************************************)
(* Properties of the extraction (SpecExtract).                             *)
(***************************************************************************)
\* the positions of `citations` that hold the URL u
MatchesOf(u) == {j \in 1..Len(citations) : citations[j].url = u}

\* the URLs one pattern alone yields on the text
UrlsOfPattern(k) ==
    LET found == ScanWith(<<>>, k, wikitext)
    IN  {found[j].url : j \in 1..Len(found)}

\* C1: the list _parse_citations_from_wikitext returns holds no URL twice, and
\* every URL that any match yielded is in it exactly once, in particular a URL
\* matched both by the url= pattern and by the direct-URL pattern.
C1_OneCitationPerUrl ==
    pc = "returned" =>
        /\ \A j, k \in 1..Len(result) : j # k => result[j].url # result[k].url
        /\ \A j \in 1..Len(citations) :
               Cardinality({k \in 1..Len(result) : result[k].url = citations[j].url}) = 1

C1_Witness ==
    /\ pc = "returned"
    /\ \E u \in UrlsOfPattern(1) \cap UrlsOfPattern(2) :
           /\ Cardinality(MatchesOf(u)) = 2
           /\ Cardinality({k \in 1..Len(result) : result[k].url = u}) = 1

\* the texts the loop of line 78 reads from the matches of both patterns, cleaned
Candidates ==
    LET a == finditer(1, wikitext, 1)
        b == finditer(2, wikitext, 1)
    IN  {CleanUrl(a[j]) : j \in 1..Len(a)} \cup {CleanUrl(b[j]) : j \in 1..Len(b)}

\* the URL is one the contract admits: it parses, its scheme is http or https,
\* its network location is not empty and does not name wikipedia.org in any case
Admitted(u) ==
    /\ ~urlparse(u).raises
    /\ urlparse(u).scheme \in {<<"h","t","t","p">>, <<"h","t","t","p","s">>}
    /\ Len(urlparse(u).netloc) > 0
    /\ \A p \in 1..(Len(urlparse(u).netloc) - Len(WikipediaOrg) + 1) :
           LowerStr(SubSeq(urlparse(u).netloc, p, p + Len(WikipediaOrg) - 1)) # WikipediaOrg

\* C3: every citation returned has an admitted URL, every candidate that is
\* not admitted is absent from the result, and the extraction never raises.
C3_OnlyExternalHttp ==
    /\ pc # "raising"
    /\ pc = "returned" =>
           /\ \A k \in 1..Len(result) : Admitted(result[k].url)
           /\ \A u \in Candidates :
                  ~Admitted(u) => \A k \in 1..Len(result) : result[k].url # u

C3_Witness ==
    /\ pc = "returned"
    /\ result # <<>>
    /\ \E u \in Candidates :
           /\ ~urlparse(u).raises
           /\ IsSubstring(WikipediaOrg, LowerStr(urlparse(u).netloc))
           /\ ~IsSubstring(WikipediaOrg, urlparse(u).netloc)
           /\ \A k \in 1..Len(result) : result[k].url # u

\* C8: the record kept for a URL is the one of its last match in traversal
\* order, and the URLs stand in the result in the order of their first matches.
C8_LastRecordFirstPosition ==
    pc = "returned" =>
        /\ \A k \in 1..Len(result) :
               /\ MatchesOf(result[k].url) # {}
               /\ result[k] = citations[Max(MatchesOf(result[k].url))]
        /\ \A j, k \in 1..Len(result) :
               j < k => Min(MatchesOf(result[j].url)) < Min(MatchesOf(result[k].url))

C8_Witness ==
    /\ pc = "returned"
    /\ \E j, k \in 1..Len(result) :
           /\ j < k
           /\ Min(MatchesOf(result[j].url)) < Min(MatchesOf(result[k].url))
           /\ Max(MatchesOf(result[j].url)) > Max(MatchesOf(result[k].url))
           /\ result[j].seq = Max(MatchesOf(result[j].url))

(***************************************************************************)
(* Properties of the classification and of the report (SpecReport).        *)
(***************************************************************************)
\* C2: the country of a classification is the map entry of the last label of
\* its suffix whenever that label is in the map.
C2_LastLabelLookup ==
    \A k \in 1..Len(frame) :
        LowerStr(AfterLast(frame[k].tld, ".")) \in DOMAIN country_tlds =>
            frame[k].country_from_tld = country_tlds[LowerStr(AfterLast(frame[k].tld, "."))]

\* C5: the analysis keeps one classification per input URL, never raises, and
\* in every successful report the tld_distribution counts sum to
\* total_citations.
C5_NoUrlDropped ==
    /\ pc # "raising"
    /\ pc \in {"compile", "reported"} /\ article_cites # <<>> =>
           Len(frame) = Len(article_cites)
    /\ IsFullReport(report) =>
           SumOf(report.tld_distribution) = report.total_citations

\* C6: in every successful report citations_with_country_tld and the sum of
\* the country_distribution counts are at most total_citations.
C6_CountryCountsBounded ==
    IsFullReport(report) =>
        /\ report.citations_with_country_tld <= report.total_citations
        /\ SumOf(report.country_distribution) <= report.total_citations

C6_Witness ==
    /\ IsFullReport(report)
    /\ extract_raises # {}
    /\ report.citations_with_country_tld >= 1
    /\ report.citations_with_country_tld < report.total_citations
    /\ report.unique_domains < report.citations_with_country_tld

\* C10: in every successful report country_distribution has no bucket for the
\* classifications without a country, its counts sum to
\* citations_with_country_tld, and unique_domains is at most the number of
\* classified URLs.
C10_NoUnknownBucket ==
    IsFullReport(report) =>
        /\ None \notin DOMAIN report.country_distribution
        /\ SumOf(report.country_distribution) = report.citations_with_country_tld
        /\ report.unique_domains <= Len(frame)

C10_Witness ==
    /\ IsFullReport(report)
    /\ NoCountry(frame) # {}
    /\ report.citations_with_country_tld >= 1
    /\ Cardinality(DOMAIN report.country_distribution) >= 2

(***************************************************************************)
(* Properties of the run (Spec, FairSpec).                                 *)
(***************************************************************************)
\* the response to the request of the article under analysis
CurrentResponse == world[sample_articles[i]]

InAnalysis == pc \in {"check", "compile", "reported", "raising"}

\* no match of either pattern in the text yields an admitted URL
NoExternalUrl(text) ==
    /\ \A u \in {CleanUrl(finditer(1, text, 1)[j]) : j \in 1..Len(finditer(1, text, 1))} :
           ~Admitted(u)
    /\ \A u \in {CleanUrl(finditer(2, text, 1)[j]) : j \in 1..Len(finditer(2, text, 1))} :
           ~Admitted(u)

\* C4: generate_geoprovenance_report returns the error report exactly when the
\* citation list is empty; every fetch failure and every wikitext without a
\* valid external URL ends there and not in an exception; a report built from
\* a non-empty citation list carries no 'error' key.
C4_ErrorReportIffNoCitations ==
    /\ pc = "reported" =>
           /\ IsErrorReport(report) <=> article_cites = <<>>
           /\ IsErrorReport(report) => report = ErrorReport
           /\ article_cites # <<>> => IsFullReport(report)
    /\ InAnalysis /\ (CurrentResponse.kind # "ok" \/ NoExternalUrl(CurrentResponse.body)) =>
           /\ article_cites = <<>>
           /\ pc \in {"check", "reported"}

C4_Witness ==
    /\ pc = "reported"
    /\ report = ErrorReport
    /\ CurrentResponse.kind = "http_error"
    /\ ~NoExternalUrl(CurrentResponse.body)

\* C7: the loop visits every article once, in list order, whatever each
\* analysis does; it reaches the end of the list, where results is written
\* with an entry for every article whose analysis did not raise.
C7_LoopReachesTheEnd ==
    /\ <>(pc = "done")
    /\ [](pc = "done" =>
            /\ visited = sample_articles
            /\ saved = [written |-> TRUE, content |-> results]
            /\ \A t \in Titles \ raised : t \in DOMAIN results)

C7_Witness ==
    /\ pc = "done"
    /\ sample_articles[1] \in raised
    /\ sample_articles[NumArticles] \in DOMAIN saved.content

\* lines 145-182 as one function of the title, the response to its request, the
\* URLs whose decomposition raises and the time; defined where it returns
generate_geoprovenance_report(title, resp, failing, timestamp) ==
    LET cites == extract_citations_from_article(resp)
    IN  IF cites = <<>> THEN ErrorReport
        ELSE CompileReport(title, cites,
                 analyze_url_geoprovenance([k \in 1..Len(cites) |-> cites[k].url], failing),
                 timestamp)

\* a step leaves alone every entry of results but that of the article under analysis
OtherEntriesKept ==
    \A t \in Titles :
        (i > NumArticles \/ t # sample_articles[i]) =>
            /\ t \in DOMAIN results' <=> t \in DOMAIN results
            /\ t \in DOMAIN results => results'[t] = results[t]

\* C9: a loop iteration writes at most the entry of its own article, and the
\* report stored for an article is the one its own request yields, whichever
\* articles came before it (the time stamp is the clock's, at some time of the run).
C9_OwnEntryOnly ==
    /\ [][OtherEntriesKept]_vars
    /\ [](\A t \in DOMAIN results :
            \E ts \in 0..NumArticles :
                results[t] = generate_geoprovenance_report(t, world[t], extract_raises, ts))

C9_Witness ==
    /\ Cardinality(DOMAIN results) >= 1
    /\ raised # {}
    /\ \E t \in DOMAIN results : IsFullReport(results[t]) /\ \E u \in raised : u < t

====
